---- MODULE Spec2Model ----
(***************************************************************************)
(* wiretap: a model of the TCP challenge/response correlator               *)
(* (TcpSegmentCollection::find_challenge_response_pairs, in its two copies *)
(* src/src/lib.rs and src/src/tcp_packet.rs), of the capture session       *)
(* (PacketCapture<State>, src/src/lib.rs) and of its pure functions (the   *)
(* decode pipeline results_as_ethernet / ipv4 / tcp and                    *)
(* Ipv4PacketCollection::filter_only_host).                                *)
(*                                                                         *)
(* The specifications of the module:                                       *)
(*   CorrSpec  the correlator run on every bounded input, one outer-loop   *)
(*             iteration per step;                                         *)
(*   Spec      the capture session: the caller's API calls interleaved     *)
(*             with the background tasks spawned by start_capture and      *)
(*             start_live_process (FairSpec adds the scheduler's fairness, *)
(*             TermSpec the hypothesis that every receive returns);        *)
(*   DecSpec   the decode pipeline applied to every bounded snapshot;      *)
(*   FilterSpec  filter_only_host applied, and applied again to its own    *)
(*             result, on every bounded packet collection and host;        *)
(*   AnsSpec   TcpSegment::is_answered_by applied to every pair of         *)
(*             segments around the top of the sequence-number space.       *)
(***************************************************************************)
EXTENDS Integers, Sequences, FiniteSets

VARIABLES
    \* ---- correlator (find_challenge_response_pairs) ----
    version,     \* which copy of the function runs: "lib" or "tcp"
    input,       \* the collection the function is called on (self)
    unmatched,   \* the working pool `unmatched`; an entry is the input
                 \* position whose clone it holds (the segment is input[p])
    matched,     \* the vector `matched`: pairs <<challenge, response>>
    i,           \* the outer index i (0-based, as in the source)
    cpc,         \* "loop" | "done" (returned) | "panic" (Vec::remove panicked)
    \* ---- capture session (PacketCapture) ----
    handles,     \* typestate handles the caller holds, by state marker
    stop_signal, \* Arc<AtomicBool> shared by every handle and task
    packets,     \* Arc<Mutex<Vec<Vec<u8>>>>: the shared frame buffer
    lock,        \* owner of the buffer's mutex: "free", "caller" or a task id
    tasks,       \* the closures handed to rayon::spawn, in spawn order
    caller,      \* where the calling thread stands inside stop_capture
    completed,   \* the Completed handles' `results` fields, in creation order
    returned,    \* per Completed handle, what results_raw returned last
    delivered,   \* frames handed to the live-process callback, in order
    appends,     \* history: how many frames the tasks have pushed so far
    \* ---- decode pipeline (results_as_ethernet / ipv4 / tcp) ----
    raw_frames,  \* the `results` snapshot the three methods are called on
    decoded,     \* per method, whether it was called and what it returned
    \* ---- Ipv4PacketCollection::filter_only_host ----
    ip_packets,  \* the collection the filter is first called on (self)
    host,        \* the `host` argument
    filtered,    \* the successive results: filtered[1] of ip_packets,
                 \* filtered[n + 1] of filtered[n]
    \* ---- TcpSegment::is_answered_by ----
    challenge,   \* self
    candidate,   \* other
    answered     \* whether the method was called and what it returned

corrVars == <<version, input, unmatched, matched, i, cpc>>
capVars == <<handles, stop_signal, packets, lock, tasks, caller, completed,
             returned, delivered, appends>>
decVars == <<raw_frames, decoded>>
filterVars == <<ip_packets, host, filtered>>
ansVars == <<challenge, candidate, answered>>
pureVars == <<raw_frames, decoded, ip_packets, host, filtered, challenge,
              candidate, answered>>
vars == <<version, input, unmatched, matched, i, cpc, handles, stop_signal,
          packets, lock, tasks, caller, completed, returned, delivered, appends,
          raw_frames, decoded, ip_packets, host, filtered, challenge,
          candidate, answered>>

(***************************************************************************)
(* Bounds.                                                                 *)
(***************************************************************************)
\* longest input collection given to the correlator
MaxLen == 4
\* frames the capture channels deliver in all, over all tasks
MaxFrames == 2
\* start_capture / start_live_process calls that return a Started handle
MaxStarts == 2
\* stop_capture calls
MaxStops == 1
\* longest snapshot given to the decode pipeline
MaxRaw == 4
\* longest packet collection given to filter_only_host
MaxPackets == 3
\* successive applications of filter_only_host
MaxApplications == 2
\* size of the sequence-number space of the is_answered_by model: sequence
\* and acknowledgement numbers are 0 .. SeqSpace - 1 (the source's u32 has
\* 2^32 of them); sums are formed in the unbounded integers, as the source
\* forms them in a usize that no sum of a u32 and a payload length exceeds
\* on a 64-bit target
SeqSpace == 16
\* longest payload in the is_answered_by model
MaxPayload == 2

(***************************************************************************)
(* TCP segments: the header fields is_answered_by reads, and the payload   *)
(* length.                                                                 *)
(***************************************************************************)
Ports == {80, 9000}
SeqNums == {100}
PayloadLens == {0, 10}
AckNums == {100, 110}

\* The segments of the flows that have port 80 at one end or at both.
Segments ==
    {s \in [src : Ports, dst : Ports, seq : SeqNums, len : PayloadLens,
            ack : AckNums] : s.src = 80 \/ s.dst = 80}

\* TcpSegment::is_answered_by.  Both sides are widened to usize before the
\* addition, so the sum is the mathematical one (no reduction modulo 2^32).
\* An is_answered_by that reduces the sum to the sequence-number space.
IsAnsweredByWrapping(a, b) ==
    /\ a.src = b.dst
    /\ a.dst = b.src
    /\ (a.seq + a.len) % SeqSpace = b.ack

IsAnsweredBy(a, b) ==
    /\ a.src = b.dst
    /\ a.dst = b.src
    /\ a.seq + a.len = b.ack

\* Vec::len
VecLen(v) == Len(v)

\* v[k] with the source's 0-based index
At(v, k) == v[k + 1]

\* Vec::swap_remove(k): the last element takes the removed one's place.
VecSwapRemove(v, k) ==
    [n \in 1..(Len(v) - 1) |-> IF n = k + 1 THEN v[Len(v)] ELSE v[n]]

\* Vec::remove(k), 0-based, for k < len: the later elements shift left.
VecRemove(v, k) ==
    [n \in 1..(Len(v) - 1) |-> IF n <= k THEN v[n] ELSE v[n + 1]]

\* Vec::remove panics when the index is not below the length.
RemovePanics(v, k) == k >= VecLen(v)

\* The segment held in pool slot k (0-based).
SegAt(in, pool, k) == in[At(pool, k)]

\* The inner loop's candidate indices: j starts at 0, is incremented before
\* it is used, and the loop runs while j < len - 1: j = 1 .. len - 1.
CandidateIndices(pool) == 1..(VecLen(pool) - 1)

\* Candidate test as a forgetful copy would write it: ports only.
AnswersPortsOnly(in, pool, ii, j) ==
    /\ SegAt(in, pool, ii).src = SegAt(in, pool, j).dst
    /\ SegAt(in, pool, ii).dst = SegAt(in, pool, j).src

\* `challenge.is_answered_by(&candidate)` for challenge pool[ii], candidate pool[j]
Answers(in, pool, ii, j) ==
    IsAnsweredBy(SegAt(in, pool, ii), SegAt(in, pool, j))

\* The candidates of pool[ii] that answer it.
AnsweringIndices(in, pool, ii) ==
    {j \in CandidateIndices(pool) : Answers(in, pool, ii, j)}

\* An inner loop without its `break`: the last answering candidate wins.
LastAnswer(in, pool, ii) ==
    CHOOSE j \in AnsweringIndices(in, pool, ii) :
        \A k \in AnsweringIndices(in, pool, ii) : j >= k

\* The inner loop breaks at the first answering candidate.
FirstAnswer(in, pool, ii) ==
    CHOOSE j \in AnsweringIndices(in, pool, ii) :
        \A k \in AnsweringIndices(in, pool, ii) : j <= k

\* Two successive Vec::remove calls, first k1 then k2.  The result carries
\* the pool as the calls left it and whether the second call panicked (the
\* first index is always in range where the source calls it).
RemoveTwo(pool, k1, k2) ==
    LET once == VecRemove(pool, k1)
    IN  IF RemovePanics(once, k2)
        THEN [pool |-> once, panicked |-> TRUE]
        ELSE [pool |-> VecRemove(once, k2), panicked |-> FALSE]

\* A removal that forgets the second call.
RemoveOnlyChallenge(v, pool, ii, j) ==
    [pool |-> VecRemove(pool, ii), panicked |-> FALSE]

\* The removal of a matched pair.
\*   lib.rs:        unmatched.remove(i); unmatched.remove(j);
\*   tcp_packet.rs: if j > i { remove(j); remove(i) } else { remove(i); remove(j) }
RemovePair(v, pool, ii, j) ==
    IF v = "lib"
    THEN RemoveTwo(pool, ii, j)
    ELSE IF j > ii
         THEN RemoveTwo(pool, j, ii)
         ELSE RemoveTwo(pool, ii, j)

Versions == {"lib", "tcp"}

\* find_challenge_response_pairs as a function of its loop state: what the
\* call returns from pool `pool`, pairs `m` and outer index `ii`, or the
\* panic of a removal.
RECURSIVE Correlate(_, _, _, _, _)
Correlate(v, in, pool, m, ii) ==
    IF ~(ii < VecLen(pool))
    THEN [matched |-> m, unmatched |-> pool, panicked |-> FALSE]
    ELSE IF AnsweringIndices(in, pool, ii) = {}
         THEN Correlate(v, in, pool, m, ii + 1)
         ELSE LET j == FirstAnswer(in, pool, ii)
                  r == RemovePair(v, pool, ii, j)
                  m2 == Append(m, <<At(pool, ii), At(pool, j)>>)
              IN  IF r.panicked
                  THEN [matched |-> m2, unmatched |-> r.pool, panicked |-> TRUE]
                  ELSE Correlate(v, in, r.pool, m2, ii)

\* The call of copy v on the collection `in`, from its first statement.
FindChallengeResponsePairs(v, in) ==
    Correlate(v, in, [k \in 1..Len(in) |-> k], <<>>, 0)

\* All sequences over S of length at most n.
SeqsUpTo(S, n) == UNION {[1..m -> S] : m \in 0..n}

(***************************************************************************)
(* The capture session: state.                                             *)
(***************************************************************************)
\* A raw frame is the list of the protocol layers its bytes hold, outermost
\* first; the pnet parsers are opaque ("succeeds or fails"), so a layer
\* parses exactly when the bytes at that depth are of its kind.
Frames ==
    { <<"junk">>,
      <<"eth", "arp">>,
      <<"eth", "ipv4", "udp">>,
      <<"eth", "ipv4", "tcp">> }

\* The frames the capture channels deliver in the session model: one that
\* parses at no layer beyond Ethernet and one that parses at every layer.
ChannelFrames == { <<"eth", "arp">>, <<"eth", "ipv4", "tcp">> }

\* A task's `packet` before rx.next() has returned one.
NoFrame == <<>>

\* The owner of the buffer's mutex.
Free == [who |-> "free", id |-> 0]
ByCaller == [who |-> "caller", id |-> 0]
ByTask(t) == [who |-> "task", id |-> t]

\* vec![vec![]]: a buffer born with one (empty) frame in it.
OneEmptyFrame == << <<>> >>

\* PacketCapture::new: packets: Arc::new(Mutex::new(vec![]))
InitialPackets == <<>>

\* The handles PacketCapture::new leaves the caller with: one Initialized.
InitialHandles == [Initialized |-> 1, Started |-> 0]

\* The closure handed to rayon::spawn: kind "capture" (start_capture) or
\* "live" (start_live_process), its position, and the frame it holds.
\*   check    about to evaluate `!stop_signal.load(Relaxed)`
\*   recv     inside rx.next() (may block for ever)
\*   lock     about to call packets.lock() (capture only)
\*   push     holds the lock, about to push and drop the guard (capture only)
\*   callback about to call callback(packet.to_vec()) (live only)
\*   exited   the loop's guard failed, the closure returned
\*   panicked rx.next() returned Err: panic!("Could not read packet")
NewTask(kind) == [kind |-> kind, pc |-> "check", pkt |-> NoFrame]

\* The state right after PacketCapture::new returned Ok.
CapInit ==
    /\ handles = InitialHandles
    /\ stop_signal = FALSE
    /\ packets = InitialPackets
    /\ lock = Free
    /\ tasks = <<>>
    /\ caller = [pc |-> "idle", at |-> 0]
    /\ completed = <<>>
    /\ returned = <<>>
    /\ delivered = <<>>
    /\ appends = 0

\* An IPv4 packet as filter_only_host reads it: get_source, get_destination.
Addresses == {"10.0.0.1", "10.0.0.2", "10.0.0.3"}
Ipv4Packets == [source : Addresses, destination : Addresses]

\* A results_as_ method that has not been called.
NotCalled == [called |-> FALSE, panicked |-> FALSE, value |-> <<>>]

\* The decode pipeline's variables while no snapshot is decoded.
DecParked ==
    /\ raw_frames = <<>>
    /\ decoded = [ethernet |-> NotCalled, ipv4 |-> NotCalled, tcp |-> NotCalled]

\* The filter's variables while no collection is filtered.
FilterParked ==
    /\ ip_packets = <<>>
    /\ host = "10.0.0.1"
    /\ filtered = <<>>

\* Segments whose sequence and acknowledgement numbers lie at either end of
\* the sequence-number space.
EdgeNumbers == {0, 1, SeqSpace - 2, SeqSpace - 1}
EdgeSegments ==
    [src : Ports, dst : Ports, seq : EdgeNumbers, len : 0..MaxPayload,
     ack : EdgeNumbers]

\* is_answered_by's variables while it is not under study.
AnsParked ==
    /\ challenge = [src |-> 80, dst |-> 80, seq |-> 0, len |-> 0, ack |-> 0]
    /\ candidate = [src |-> 80, dst |-> 80, seq |-> 0, len |-> 0, ack |-> 0]
    /\ answered = [called |-> FALSE, value |-> FALSE]

PureParked ==
    /\ DecParked
    /\ FilterParked
    /\ AnsParked

\* The correlator's variables while no correlation runs.
CorrParked ==
    /\ version = "lib"
    /\ input = <<>>
    /\ unmatched = <<>>
    /\ matched = <<>>
    /\ i = 0
    /\ cpc = "idle"

(***************************************************************************)
(* The correlator.                                                         *)
(***************************************************************************)
\* let mut matched = Vec::new(); let mut unmatched = clones of self; let mut i = 0
CorrInit ==
    /\ version \in Versions
    /\ input \in SeqsUpTo(Segments, MaxLen)
    /\ unmatched = [k \in 1..Len(input) |-> k]
    /\ matched = <<>>
    /\ i = 0
    /\ cpc = "loop"
    /\ CapInit
    /\ PureParked

\* One iteration of `while i < unmatched.len()` in which the inner scan finds
\* no answering candidate: i += 1.
CorrNoMatch ==
    /\ cpc = "loop"
    /\ i < VecLen(unmatched)
    /\ AnsweringIndices(input, unmatched, i) = {}
    /\ i' = i + 1
    /\ UNCHANGED <<version, input, unmatched, matched, cpc>>
    /\ UNCHANGED capVars
    /\ UNCHANGED pureVars

\* One iteration in which the inner scan finds the candidate j: the pair is
\* pushed, then the two removals run; a panicking removal ends the call.
CorrMatch ==
    /\ cpc = "loop"
    /\ i < VecLen(unmatched)
    /\ AnsweringIndices(input, unmatched, i) # {}
    /\ LET j == FirstAnswer(input, unmatched, i)
           r == RemovePair(version, unmatched, i, j)
       IN  /\ matched' = Append(matched, <<At(unmatched, i), At(unmatched, j)>>)
           /\ unmatched' = r.pool
           /\ cpc' = IF r.panicked THEN "panic" ELSE "loop"
    /\ UNCHANGED <<version, input, i>>
    /\ UNCHANGED capVars
    /\ UNCHANGED pureVars

\* The outer loop's guard fails: the function returns (matched, unmatched).
CorrReturn ==
    /\ cpc = "loop"
    /\ ~(i < VecLen(unmatched))
    /\ cpc' = "done"
    /\ UNCHANGED <<version, input, unmatched, matched, i>>
    /\ UNCHANGED capVars
    /\ UNCHANGED pureVars

CorrNext ==
    \/ CorrNoMatch
    \/ CorrMatch
    \/ CorrReturn

CorrSpec == CorrInit /\ [][CorrNext]_vars

\* The two outputs as the caller sees them: segment values.
MatchedOut == [k \in 1..Len(matched) |-> <<input[matched[k][1]], input[matched[k][2]]>>]
UnmatchedOut == [k \in 1..Len(unmatched) |-> input[unmatched[k]]]

(***************************************************************************)
(* The capture session: operations.                                        *)
(*                                                                         *)
(* The caller is one thread; every API method takes &self, so a call       *)
(* leaves the handle it was made on in the caller's hands.  The stop flag  *)
(* is stored and loaded with Ordering::Relaxed; the store is one step of   *)
(* the caller, free to fall anywhere between the steps of the tasks, which *)
(* covers every value a load may observe.                                  *)
(***************************************************************************)
\* impl PacketCapture<Initialized>: start_capture, start_live_process
CanStart == handles.Initialized > 0

\* A stop_capture that any handle could call.
CanStopOnAnyHandle == handles.Initialized + handles.Started > 0

\* impl PacketCapture<Started>: stop_capture
CanStop == handles.Started > 0

\* impl PacketCapture<Completed>: results_raw and the results_as_ methods
CanRead(h) == h \in DOMAIN completed

\* Frames the channels have delivered so far (pushed, dispatched or in hand).
Received ==
    appends + Len(delivered)
        + Cardinality({t \in DOMAIN tasks : tasks[t].pkt # NoFrame})

\* start_capture / start_live_process(callback): open the channel, spawn the
\* closure, return a new Started handle sharing packets and stop_signal; a
\* channel that cannot be opened (or is not Ethernet) panics in the caller.
Start(kind) ==
    /\ caller.pc = "idle"
    /\ CanStart
    /\ \/ /\ Len(tasks) < MaxStarts
          /\ tasks' = Append(tasks, NewTask(kind))
          /\ handles' = [handles EXCEPT !.Started = @ + 1]
          /\ UNCHANGED caller
       \/ /\ caller' = [caller EXCEPT !.pc = "panicked"]
          /\ UNCHANGED <<tasks, handles>>
    /\ UNCHANGED <<stop_signal, packets, lock, completed, returned, delivered,
                   appends>>
    /\ UNCHANGED corrVars
    /\ UNCHANGED pureVars

StartCapture == Start("capture")

StartLiveProcess == Start("live")

\* stop_capture, first statement: self.stop_signal.store(true, Relaxed)
StopStore ==
    /\ caller.pc = "idle"
    /\ CanStop
    /\ Len(completed) < MaxStops
    /\ stop_signal' = TRUE
    /\ caller' = [pc |-> "stop_lock", at |-> appends]
    /\ UNCHANGED <<handles, packets, lock, tasks, completed, returned,
                   delivered, appends>>
    /\ UNCHANGED corrVars
    /\ UNCHANGED pureVars

\* stop_capture: self.packets.lock().unwrap() (blocks while the mutex is held)
StopLock ==
    /\ caller.pc = "stop_lock"
    /\ lock = Free
    /\ lock' = ByCaller
    /\ caller' = [caller EXCEPT !.pc = "stop_clone"]
    /\ UNCHANGED <<handles, stop_signal, packets, tasks, completed, returned,
                   delivered, appends>>
    /\ UNCHANGED corrVars
    /\ UNCHANGED pureVars

\* A Completed handle that keeps reading the shared buffer.
LiveBufferOf(h) == packets

\* results_raw: self.results.clone()
ResultsRawValue(h) == completed[h].results

\* stop_capture: .clone().into_iter().collect() into `results`, the guard is
\* dropped and the Completed handle returned.  atInvoke and atSnapshot are
\* history: the tasks' pushes before the flag store and before this clone.
StopSnapshot ==
    /\ caller.pc = "stop_clone"
    /\ completed' = Append(completed,
            [results |-> packets, atInvoke |-> caller.at, atSnapshot |-> appends])
    /\ returned' = Append(returned, [called |-> FALSE, value |-> <<>>])
    /\ lock' = Free
    /\ caller' = [pc |-> "idle", at |-> 0]
    /\ UNCHANGED <<handles, stop_signal, packets, tasks, delivered, appends>>
    /\ UNCHANGED corrVars
    /\ UNCHANGED pureVars

\* results_raw on the Completed handle h
ResultsRaw(h) ==
    /\ caller.pc = "idle"
    /\ CanRead(h)
    /\ returned' = [returned EXCEPT ![h] = [called |-> TRUE, value |-> ResultsRawValue(h)]]
    /\ UNCHANGED <<handles, stop_signal, packets, lock, tasks, caller, completed,
                   delivered, appends>>
    /\ UNCHANGED corrVars
    /\ UNCHANGED pureVars

\* A loop that never reads the flag: while true.
TaskCheckIgnoresFlag(t) ==
    /\ tasks[t].pc = "check"
    /\ tasks' = [tasks EXCEPT ![t].pc = "recv"]
    /\ UNCHANGED <<handles, stop_signal, packets, lock, caller, completed,
                   returned, delivered, appends>>
    /\ UNCHANGED corrVars
    /\ UNCHANGED pureVars

\* while !stop_signal.load(Ordering::Relaxed)
TaskCheck(t) ==
    /\ tasks[t].pc = "check"
    /\ tasks' = [tasks EXCEPT ![t].pc = IF stop_signal THEN "exited" ELSE "recv"]
    /\ UNCHANGED <<handles, stop_signal, packets, lock, caller, completed,
                   returned, delivered, appends>>
    /\ UNCHANGED corrVars
    /\ UNCHANGED pureVars

\* rx.next() returns Ok(packet)
TaskRecvOk(t) ==
    /\ tasks[t].pc = "recv"
    /\ Received < MaxFrames
    /\ \E f \in ChannelFrames :
          tasks' = [tasks EXCEPT
                      ![t].pkt = f,
                      ![t].pc = IF tasks[t].kind = "capture" THEN "lock" ELSE "callback"]
    /\ UNCHANGED <<handles, stop_signal, packets, lock, caller, completed,
                   returned, delivered, appends>>
    /\ UNCHANGED corrVars
    /\ UNCHANGED pureVars

\* A failed receive that is swallowed: the loop goes on.
TaskRecvErrRetries(t) ==
    /\ tasks[t].pc = "recv"
    /\ tasks' = [tasks EXCEPT ![t].pc = "check"]
    /\ UNCHANGED <<handles, stop_signal, packets, lock, caller, completed,
                   returned, delivered, appends>>
    /\ UNCHANGED corrVars
    /\ UNCHANGED pureVars

\* rx.next() returns Err(e): panic!("Could not read packet: {e}").  The
\* closure ends there, holding no guard; what becomes of the panic is decided
\* by the pool's panic handler, which the application configures.
TaskRecvErr(t) ==
    /\ tasks[t].pc = "recv"
    /\ tasks' = [tasks EXCEPT ![t].pc = "panicked"]
    /\ UNCHANGED <<handles, stop_signal, packets, lock, caller, completed,
                   returned, delivered, appends>>
    /\ UNCHANGED corrVars
    /\ UNCHANGED pureVars

\* packets.lock().unwrap()
TaskLock(t) ==
    /\ tasks[t].pc = "lock"
    /\ lock = Free
    /\ lock' = ByTask(t)
    /\ tasks' = [tasks EXCEPT ![t].pc = "push"]
    /\ UNCHANGED <<handles, stop_signal, packets, caller, completed, returned,
                   delivered, appends>>
    /\ UNCHANGED corrVars
    /\ UNCHANGED pureVars

\* A guard that outlives the statement (bound outside the loop).
GuardKept(t) == ByTask(t)

\* The temporary MutexGuard is dropped at the end of the push statement.
GuardDropped(t) == Free

\* .push(packet.to_owned()); the guard is dropped; next iteration
TaskPush(t) ==
    /\ tasks[t].pc = "push"
    /\ packets' = Append(packets, tasks[t].pkt)
    /\ appends' = appends + 1
    /\ lock' = GuardDropped(t)
    /\ tasks' = [tasks EXCEPT ![t].pc = "check", ![t].pkt = NoFrame]
    /\ UNCHANGED <<handles, stop_signal, caller, completed, returned, delivered>>
    /\ UNCHANGED corrVars
    /\ UNCHANGED pureVars

\* A live task that also buffers the frame it dispatches.
TaskCallbackAlsoBuffers(t) ==
    /\ tasks[t].pc = "callback"
    /\ delivered' = Append(delivered, tasks[t].pkt)
    /\ packets' = Append(packets, tasks[t].pkt)
    /\ tasks' = [tasks EXCEPT ![t].pc = "check", ![t].pkt = NoFrame]
    /\ UNCHANGED <<handles, stop_signal, lock, caller, completed, returned,
                   appends>>
    /\ UNCHANGED corrVars
    /\ UNCHANGED pureVars

\* callback(packet.to_vec()); next iteration
TaskCallback(t) ==
    /\ tasks[t].pc = "callback"
    /\ delivered' = Append(delivered, tasks[t].pkt)
    /\ tasks' = [tasks EXCEPT ![t].pc = "check", ![t].pkt = NoFrame]
    /\ UNCHANGED <<handles, stop_signal, packets, lock, caller, completed,
                   returned, appends>>
    /\ UNCHANGED corrVars
    /\ UNCHANGED pureVars

Init ==
    /\ CapInit
    /\ CorrParked
    /\ PureParked

Next ==
    \/ StartCapture
    \/ StartLiveProcess
    \/ StopStore
    \/ StopLock
    \/ StopSnapshot
    \/ \E h \in DOMAIN completed : ResultsRaw(h)
    \/ \E t \in DOMAIN tasks : TaskCheck(t)
    \/ \E t \in DOMAIN tasks : TaskRecvOk(t)
    \/ \E t \in DOMAIN tasks : TaskRecvErr(t)
    \/ \E t \in DOMAIN tasks : TaskLock(t)
    \/ \E t \in DOMAIN tasks : TaskPush(t)
    \/ \E t \in DOMAIN tasks : TaskCallback(t)

Spec == Init /\ [][Next]_vars

\* The scheduler's part: a thread that is runnable keeps running.  The caller
\* inside stop_capture proceeds (it gets the mutex if the mutex is free again
\* and again), and a task that holds the guard finishes its push statement.
\* Nothing is assumed of rx.next(): a receive may block for ever.
FairSpec ==
    /\ Spec
    /\ SF_vars(StopLock)
    /\ WF_vars(StopSnapshot)
    /\ \A t \in 1..MaxStarts : WF_vars(t \in DOMAIN tasks /\ TaskPush(t))

\* The scheduler's part for the tasks, with the claim's hypothesis that every
\* receive returns (with a frame or with an error): a task that can run its
\* check, its push or its callback does so, its receive returns, and it gets
\* the mutex if the mutex is free again and again.
TermSpec ==
    /\ FairSpec
    /\ \A t \in 1..MaxStarts :
          /\ WF_vars(t \in DOMAIN tasks /\ TaskCheck(t))
          /\ WF_vars(t \in DOMAIN tasks /\ (TaskRecvOk(t) \/ TaskRecvErr(t)))
          /\ SF_vars(t \in DOMAIN tasks /\ TaskLock(t))
          /\ WF_vars(t \in DOMAIN tasks /\ TaskCallback(t))

(***************************************************************************)
(* The decode pipeline of a Completed session.                             *)
(***************************************************************************)
\* pnet::packet::ethernet::EthernetPacket::new(v).is_some()
ParsesAsEthernet(v) == Len(v) >= 1 /\ v[1] = "eth"

\* pnet::packet::ipv4::Ipv4Packet::new(bytes).is_some()
ParsesAsIpv4(v) == Len(v) >= 1 /\ v[1] = "ipv4"

\* pnet::packet::tcp::TcpPacket::new(bytes).is_some()
ParsesAsTcp(v) == Len(v) >= 1 /\ v[1] = "tcp"

\* Packet::payload of a parsed layer: the bytes after its header.
Payload(v) == Tail(v)

EthernetCarriesIpv4(e) == ParsesAsIpv4(Payload(e))

Ipv4CarriesTcp(p) == ParsesAsTcp(Payload(p))

\* A results_as_ethernet that maps without filtering first.
ResultsAsEthernetUnfiltered(raw) == raw

\* results_as_ethernet: filter, then an owned EthernetPacket over the same bytes
ResultsAsEthernet(raw) == SelectSeq(raw, ParsesAsEthernet)

\* results_as_ipv4: filter the Ethernet frames, own each frame's payload
ResultsAsIpv4(raw) ==
    LET kept == SelectSeq(ResultsAsEthernet(raw), EthernetCarriesIpv4)
    IN  [k \in DOMAIN kept |-> Payload(kept[k])]

\* results_as_tcp: filter the IPv4 packets, own each packet's payload
ResultsAsTcp(raw) ==
    LET kept == SelectSeq(ResultsAsIpv4(raw), Ipv4CarriesTcp)
    IN  [k \in DOMAIN kept |-> Payload(kept[k])]

\* The map step of a results_as_ method: XPacket::owned(bytes).unwrap() on
\* every element the filter kept.  The unwrap panics on bytes that do not
\* parse; the filter before it is what keeps such bytes away.
EthernetUnwrapPanics(raw) ==
    \E k \in DOMAIN ResultsAsEthernet(raw) :
        ~ParsesAsEthernet(ResultsAsEthernet(raw)[k])

Ipv4UnwrapPanics(raw) ==
    \/ EthernetUnwrapPanics(raw)
    \/ \E k \in DOMAIN ResultsAsIpv4(raw) : ~ParsesAsIpv4(ResultsAsIpv4(raw)[k])

TcpUnwrapPanics(raw) ==
    \/ Ipv4UnwrapPanics(raw)
    \/ \E k \in DOMAIN ResultsAsTcp(raw) : ~ParsesAsTcp(ResultsAsTcp(raw)[k])

\* What a call leaves behind: the collection it returned, or the panic.
Outcome(panics, value) ==
    [called |-> TRUE, panicked |-> panics, value |-> IF panics THEN <<>> ELSE value]

\* Every snapshot of at most MaxRaw frames, nothing decoded yet.
DecInit ==
    /\ raw_frames \in SeqsUpTo(Frames, MaxRaw)
    /\ decoded = [ethernet |-> NotCalled, ipv4 |-> NotCalled, tcp |-> NotCalled]
    /\ FilterParked
    /\ AnsParked
    /\ CapInit
    /\ CorrParked

\* results_as_ethernet() on the Completed handle
CallResultsAsEthernet ==
    /\ ~decoded.ethernet.called
    /\ decoded' = [decoded EXCEPT !.ethernet =
            Outcome(EthernetUnwrapPanics(raw_frames), ResultsAsEthernet(raw_frames))]
    /\ UNCHANGED raw_frames
    /\ UNCHANGED <<filterVars, ansVars, corrVars, capVars>>

\* results_as_ipv4() on the Completed handle
CallResultsAsIpv4 ==
    /\ ~decoded.ipv4.called
    /\ decoded' = [decoded EXCEPT !.ipv4 =
            Outcome(Ipv4UnwrapPanics(raw_frames), ResultsAsIpv4(raw_frames))]
    /\ UNCHANGED raw_frames
    /\ UNCHANGED <<filterVars, ansVars, corrVars, capVars>>

\* results_as_tcp() on the Completed handle
CallResultsAsTcp ==
    /\ ~decoded.tcp.called
    /\ decoded' = [decoded EXCEPT !.tcp =
            Outcome(TcpUnwrapPanics(raw_frames), ResultsAsTcp(raw_frames))]
    /\ UNCHANGED raw_frames
    /\ UNCHANGED <<filterVars, ansVars, corrVars, capVars>>

DecNext ==
    \/ CallResultsAsEthernet
    \/ CallResultsAsIpv4
    \/ CallResultsAsTcp

DecSpec == DecInit /\ [][DecNext]_vars

(***************************************************************************)
(* Ipv4PacketCollection::filter_only_host (the same text in lib.rs and in  *)
(* ipv4_packet.rs).                                                        *)
(***************************************************************************)
\* A filter that wants the host at both ends.
HostAtBothEnds(p, A) == p.source = A /\ p.destination = A

\* |p| p.get_source() == host || p.get_destination() == host
HostAtEitherEnd(p, A) == p.source = A \/ p.destination = A

\* self.iter().filter(..).map(|p| p.create_clone()).collect()
FilterOnlyHost(P, A) == SelectSeq(P, LAMBDA p : HostAtEitherEnd(p, A))

\* Every collection of at most MaxPackets packets and every host.
FilterInit ==
    /\ ip_packets \in SeqsUpTo(Ipv4Packets, MaxPackets)
    /\ host \in Addresses
    /\ filtered = <<>>
    /\ DecParked
    /\ AnsParked
    /\ CapInit
    /\ CorrParked

\* filter_only_host(host), on ip_packets first and then on the last result
CallFilterOnlyHost ==
    /\ Len(filtered) < MaxApplications
    /\ filtered' = Append(filtered,
            FilterOnlyHost(IF filtered = <<>> THEN ip_packets
                                              ELSE filtered[Len(filtered)], host))
    /\ UNCHANGED <<ip_packets, host>>
    /\ UNCHANGED <<decVars, ansVars, corrVars, capVars>>

FilterNext == CallFilterOnlyHost

FilterSpec == FilterInit /\ [][FilterNext]_vars

(***************************************************************************)
(* TcpSegment::is_answered_by (the same text in lib.rs and tcp_packet.rs). *)
(***************************************************************************)
\* Every pair of edge segments, the method not yet called.
AnsInit ==
    /\ challenge \in EdgeSegments
    /\ candidate \in EdgeSegments
    /\ answered = [called |-> FALSE, value |-> FALSE]
    /\ DecParked
    /\ FilterParked
    /\ CapInit
    /\ CorrParked

\* challenge.is_answered_by(&candidate)
CallIsAnsweredBy ==
    /\ ~answered.called
    /\ answered' = [called |-> TRUE, value |-> IsAnsweredBy(challenge, candidate)]
    /\ UNCHANGED <<challenge, candidate>>
    /\ UNCHANGED <<decVars, filterVars, corrVars, capVars>>

AnsNext == CallIsAnsweredBy

AnsSpec == AnsInit /\ [][AnsNext]_vars

(***************************************************************************)
(* Claims about the correlator (checked under CorrSpec).                   *)
(***************************************************************************)
\* Number of positions of s holding x.
CountIn(x, s) == Cardinality({k \in DOMAIN s : s[k] = x})

\* Occurrences of x among the challenges and responses of the matched pairs.
CountInPairs(x, ps) ==
    Cardinality({k \in DOMAIN ps : ps[k][1] = x})
        + Cardinality({k \in DOMAIN ps : ps[k][2] = x})

\* The ordered pairs of input positions (a position with itself included)
\* whose segments satisfy is_answered_by.
AnswerPairs(in) ==
    {pq \in (DOMAIN in) \X (DOMAIN in) : IsAnsweredBy(in[pq[1]], in[pq[2]])}

\* The sequence s without its (1-based) positions p < q.
WithoutTwo(s, p, q) == VecRemove(VecRemove(s, q - 1), p - 1)

\* C1: whenever find_challenge_response_pairs returns, the outputs partition
\* the input: every segment occurs among the matched pairs' members and the
\* unmatched segments together exactly as often as it occurs in the input.
C1_OutputsPartitionInput ==
    cpc = "done" =>
        \A x \in Segments :
            CountInPairs(x, MatchedOut) + CountIn(x, UnmatchedOut)
                = CountIn(x, input)

\* C2: 2 * (pairs recorded) + (pool length) = |input| after every completed
\* iteration of the outer loop and on return.
C2_PairsAndPoolCount ==
    cpc # "panic" => 2 * Len(matched) + Len(unmatched) = Len(input)

\* C2 witness: a returned call that matched one pair and left one segment.
C2_Witness ==
    /\ cpc = "done"
    /\ Len(matched) = 1
    /\ Len(unmatched) = 1

\* C3: if A stands before B, A.is_answered_by(B), and no other ordered pair
\* of input segments satisfies is_answered_by, the call returns exactly the
\* pair (A, B) and the remaining segments, unmatched, in input order.
C3_SingleAnswerPaired ==
    \A p, q \in DOMAIN input :
        (p < q /\ AnswerPairs(input) = {<<p, q>>}) =>
            /\ cpc # "panic"
            /\ cpc = "done" =>
                /\ MatchedOut = << <<input[p], input[q]>> >>
                /\ UnmatchedOut = WithoutTwo(input, p, q)

\* C3 holds of the tcp_packet.rs copy, which removes the higher index first.
C3_SingleAnswerPairedTcpCopy ==
    version = "tcp" => C3_SingleAnswerPaired

\* C4: when no segment of the input satisfies is_answered_by for any segment
\* of the input, the call returns zero pairs and the input itself, unchanged,
\* as the unmatched sequence.
C4_NoAnswersAllUnmatched ==
    AnswerPairs(input) = {} =>
        /\ cpc # "panic"
        /\ matched = <<>>
        /\ UnmatchedOut = input

\* C4 witness: a returned call on three segments none of which answers any.
C4_Witness ==
    /\ cpc = "done"
    /\ Len(input) = 3
    /\ AnswerPairs(input) = {}
    /\ MatchedOut = <<>>
    /\ UnmatchedOut = input

(***************************************************************************)
(* Claims about the capture session (checked under Spec and FairSpec).     *)
(***************************************************************************)
\* The tasks that have neither left their loop nor panicked.
LiveTasks == {t \in DOMAIN tasks : tasks[t].pc \notin {"exited", "panicked"}}

InStopCapture == caller.pc \in {"stop_lock", "stop_clone"}

\* C5: results_raw of a Completed session is the buffer as stop_capture read
\* it under the lock, after the flag was set, and never changes: the handle's
\* results stay what they were, every results_raw call returns them, whatever
\* the tasks append afterwards.
C5_SnapshotFixedAtStop ==
    /\ [](\A h \in DOMAIN returned :
            returned[h].called => returned[h].value = completed[h].results)
    /\ [][\A h \in DOMAIN completed : completed'[h] = completed[h]]_vars
    /\ [][\A h \in DOMAIN returned :
            returned[h].called => returned'[h] = returned[h]]_vars
    /\ [][Len(completed') > Len(completed) =>
            /\ lock = ByCaller
            /\ stop_signal
            /\ completed'[Len(completed')].results = packets]_vars

\* C5 witness: results_raw has returned the snapshot of a session whose
\* buffer has grown since the snapshot was taken.
C5_Witness ==
    \E h \in DOMAIN returned :
        /\ returned[h].called
        /\ Len(packets) > Len(completed[h].results)

\* C6: stop_capture runs only on a session that was started, the results
\* methods only on one that was stopped, and while the session was never
\* started stop_capture is not callable and flag and buffer are untouched.
C6_StopOnlyAfterStartReadOnlyAfterStop ==
    /\ (stop_signal \/ InStopCapture \/ completed # <<>>) => Len(tasks) > 0
    /\ \A h \in DOMAIN returned :
          returned[h].called => (h \in DOMAIN completed /\ stop_signal)
    /\ Len(tasks) = 0 =>
          /\ ~ENABLED StopStore
          /\ stop_signal = FALSE
          /\ packets = <<>>

\* C6 witness: a session that was started, stopped and read.
C6_Witness ==
    /\ Len(tasks) > 0
    /\ \E h \in DOMAIN returned : returned[h].called

\* C7: once stop_capture has been invoked on a session, no later
\* start_capture or start_live_process on it is accepted: no task is spawned
\* and no Started handle handed out.
C7_NoStartAfterStop ==
    [][stop_signal => (Len(tasks') = Len(tasks) /\ handles' = handles)]_vars

\* C8: at every moment at most one background producer task exists per
\* session.
C8_AtMostOneProducer == Cardinality(LiveTasks) <= 1

\* C9: a task holds the buffer lock only inside its push statement, never
\* while it is in rx.next(), and a stop_capture call always returns, also
\* when a receive never does.
C9_StopCaptureReturns ==
    /\ [](\A t \in DOMAIN tasks : lock = ByTask(t) => tasks[t].pc = "push")
    /\ InStopCapture ~> (caller.pc = "idle")

\* C9 witness: stop_capture has returned a Completed handle while a capture
\* task is still inside rx.next().
C9_Witness ==
    /\ caller.pc = "idle"
    /\ completed # <<>>
    /\ \E t \in DOMAIN tasks : tasks[t].kind = "capture" /\ tasks[t].pc = "recv"

\* The four views of a Completed handle are all empty.
AllResultsEmpty(h) ==
    /\ ResultsRawValue(h) = <<>>
    /\ ResultsAsEthernet(ResultsRawValue(h)) = <<>>
    /\ ResultsAsIpv4(ResultsRawValue(h)) = <<>>
    /\ ResultsAsTcp(ResultsRawValue(h)) = <<>>

\* C10 as stated: stop_capture invoked (flag stored) before any task has
\* appended a frame gives empty results.
C10_EmptyWhenInvokedBeforeAnyAppend ==
    \A h \in DOMAIN completed : completed[h].atInvoke = 0 => AllResultsEmpty(h)

\* C10 amended: no frame appended before stop_capture reads the buffer under
\* the lock gives empty results_raw and empty Ethernet, IPv4 and TCP results.
C10_EmptyWhenSnapshotBeforeAnyAppend ==
    \A h \in DOMAIN completed : completed[h].atSnapshot = 0 => AllResultsEmpty(h)

\* C10 witness: a capture session stopped before its task's first append;
\* the task has appended a frame since.
C10_Witness ==
    \E h \in DOMAIN completed :
        /\ completed[h].atSnapshot = 0
        /\ AllResultsEmpty(h)
        /\ appends > 0

(***************************************************************************)
(* Claims about the correlator's matching and removal (under CorrSpec).    *)
(***************************************************************************)
\* A step of the outer loop that records a pair.
RecordsPair == Len(matched') > Len(matched)

\* The pool slot (0-based) that holds input position p.
SlotOf(pool, p) == CHOOSE k \in 0..(Len(pool) - 1) : At(pool, k) = p

\* The pool without the entries of P, the others in their order.
PoolWithout(pool, P) ==
    LET Keep(p) == p \notin P
    IN  SelectSeq(pool, Keep)

\* The pair the step records: <<challenge, response>> as input positions.
NewPair == matched'[Len(matched')]

\* C13: whenever a pair (pool[i], pool[j]) is recorded, the removal takes
\* out exactly the challenge at i and the candidate at j, two elements, and
\* leaves every other pool element in the pool in its relative order.
C13_RemovesExactlyThePair ==
    [][RecordsPair =>
        /\ cpc' # "panic"
        /\ NewPair[1] # NewPair[2]
        /\ unmatched' = PoolWithout(unmatched, {NewPair[1], NewPair[2]})]_vars

\* C14: no recorded pair has a segment matched against itself: challenge and
\* response come from two different pool positions.
C14_NoSelfMatch ==
    \A k \in DOMAIN matched : matched[k][1] # matched[k][2]

\* C15 as stated: the response taken is the lowest-index answering segment
\* located after the challenge; none before the challenge is taken.
C15_ResponseIsFirstAfterChallenge ==
    [][RecordsPair =>
        LET j == SlotOf(unmatched, NewPair[2])
        IN  /\ NewPair[1] = At(unmatched, i)
            /\ j > i
            /\ IsAnsweredBy(input[NewPair[1]], input[NewPair[2]])
            /\ \A m \in (i + 1)..(j - 1) :
                  ~IsAnsweredBy(input[NewPair[1]], SegAt(input, unmatched, m))]_vars

\* C15 amended: the response taken is the lowest-index answering segment
\* among the pool indices 1 .. len - 1, wherever it stands relative to the
\* challenge (before it, or the challenge's own slot, included).
C15_ResponseIsFirstFromIndexOne ==
    [][RecordsPair =>
        LET j == SlotOf(unmatched, NewPair[2])
        IN  /\ NewPair[1] = At(unmatched, i)
            /\ j >= 1
            /\ IsAnsweredBy(input[NewPair[1]], input[NewPair[2]])
            /\ \A m \in 1..(j - 1) :
                  ~IsAnsweredBy(input[NewPair[1]], SegAt(input, unmatched, m))]_vars

\* C15 witness: a recorded pair whose response stood before its challenge
\* while a later segment answered the challenge too.
C15_Witness ==
    /\ cpc = "done"
    /\ \E k \in DOMAIN matched :
          /\ matched[k][2] < matched[k][1]
          /\ \E p \in DOMAIN input :
                /\ p > matched[k][1]
                /\ IsAnsweredBy(input[matched[k][1]], input[p])

\* C16: on return no two distinct unmatched segments u, v are left with
\* u.is_answered_by(v), wherever v stands in the pool.
C16_NoAnswerLeftUnmatched ==
    cpc = "done" =>
        \A a, b \in DOMAIN unmatched :
            a # b => ~IsAnsweredBy(input[unmatched[a]], input[unmatched[b]])

\* C19: every matched pair (c, r) has c.source = r.destination,
\* c.destination = r.source and c.sequence + len(c.payload) = r.acknowledgement.
C19_PairsSatisfyRule ==
    \A k \in DOMAIN MatchedOut :
        LET c == MatchedOut[k][1]
            r == MatchedOut[k][2]
        IN  /\ c.src = r.dst
            /\ c.dst = r.src
            /\ c.seq + c.len = r.ack

\* C19 witness: a returned call with a matched pair of two different segments.
C19_Witness ==
    /\ cpc = "done"
    /\ \E k \in DOMAIN matched : matched[k][1] # matched[k][2]

\* C20: the unmatched output is a subsequence of the input: the pool's
\* entries are input positions in strictly increasing order.
C20_UnmatchedKeepsInputOrder ==
    /\ \A a \in DOMAIN unmatched : unmatched[a] \in DOMAIN input
    /\ \A a, b \in DOMAIN unmatched : a < b => unmatched[a] < unmatched[b]

\* C20 witness: a returned call that removed a pair from between segments
\* that stay unmatched.
C20_Witness ==
    /\ cpc = "done"
    /\ Len(matched) >= 1
    /\ Len(unmatched) >= 2

(***************************************************************************)
(* Claims about the tasks after the stop flag (checked under Spec and,     *)
(* for termination, under TermSpec).                                       *)
(***************************************************************************)
\* C17: after stop_capture has set the stop flag the capture task appends at
\* most one further frame, so the shared buffer never holds more than one
\* frame beyond the snapshot of a Completed handle.
C17_AtMostOneFrameBeyondSnapshot ==
    \A h \in DOMAIN completed :
        Len(packets) <= Len(completed[h].results) + 1

\* C17 holds of a session that spawned one task only.
C17_AtMostOneFrameWithOneTask ==
    Len(tasks) <= 1 => C17_AtMostOneFrameBeyondSnapshot

\* C18: a task starts a receive only from the loop's check, on reading the
\* flag as false; a task that has left the loop stays out; and once the flag
\* is set every task of the session eventually terminates.
C18_CooperativeTermination ==
    /\ [][\A t \in DOMAIN tasks :
            /\ (tasks'[t].pc = "recv" /\ tasks[t].pc # "recv") =>
                    (tasks[t].pc = "check" /\ ~stop_signal)
            /\ (tasks[t].pc = "check" /\ stop_signal /\ tasks'[t] # tasks[t]) =>
                    tasks'[t].pc = "exited"
            /\ tasks[t].pc = "exited" => tasks'[t].pc = "exited"]_vars
    /\ \A t \in 1..MaxStarts :
            (stop_signal /\ t \in DOMAIN tasks)
                ~> (t \in DOMAIN tasks /\ tasks[t].pc \in {"exited", "panicked"})

\* C18 witness: the flag is set and a capture task that had pushed a frame
\* has left its loop through the check.
C18_Witness ==
    /\ stop_signal
    /\ appends >= 1
    /\ \E t \in DOMAIN tasks : tasks[t].kind = "capture" /\ tasks[t].pc = "exited"

(***************************************************************************)
(* Claims about the pure functions (checked under DecSpec and FilterSpec). *)
(***************************************************************************)
\* The positions of s whose element passes Keep.
KeptIndices(s, Keep(_)) == {k \in DOMAIN s : Keep(s[k])}

\* The n-th smallest member of the set of positions S.
NthOf(S, n) == CHOOSE k \in S : Cardinality({m \in S : m < k}) = n - 1

\* out holds, in the order of s, Conv of exactly the elements of s that pass
\* Keep: its n-th element comes from the n-th passing position of s.
IsSelectionOf(out, s, Keep(_), Conv(_)) ==
    /\ Len(out) = Cardinality(KeptIndices(s, Keep))
    /\ \A n \in DOMAIN out : out[n] = Conv(s[NthOf(KeptIndices(s, Keep), n)])

Same(x) == x

\* C11: no results_as_ method fails; results_as_ethernet is the in-order
\* selection of the raw frames that parse as Ethernet, results_as_ipv4 (the
\* payloads) that of the Ethernet frames whose payload parses as IPv4,
\* results_as_tcp (the payloads) that of the IPv4 packets whose payload
\* parses as TCP; and |tcp| <= |ipv4| <= |ethernet| <= |raw|.
C11_DecodeSelectsInOrder ==
    LET e == decoded.ethernet
        p == decoded.ipv4
        t == decoded.tcp
    IN  /\ ~e.panicked /\ ~p.panicked /\ ~t.panicked
        /\ e.called =>
              /\ IsSelectionOf(e.value, raw_frames, ParsesAsEthernet, Same)
              /\ Len(e.value) <= Len(raw_frames)
        /\ (e.called /\ p.called) =>
              /\ IsSelectionOf(p.value, e.value,
                               LAMBDA f : ParsesAsIpv4(Payload(f)), Payload)
              /\ Len(p.value) <= Len(e.value)
        /\ (p.called /\ t.called) =>
              /\ IsSelectionOf(t.value, p.value,
                               LAMBDA q : ParsesAsTcp(Payload(q)), Payload)
              /\ Len(t.value) <= Len(p.value)

\* C11 witness: all three methods have returned on a snapshot that loses a
\* frame at every layer and keeps a TCP segment.
C11_Witness ==
    /\ decoded.ethernet.called /\ decoded.ipv4.called /\ decoded.tcp.called
    /\ 0 < Len(decoded.tcp.value)
    /\ Len(decoded.tcp.value) < Len(decoded.ipv4.value)
    /\ Len(decoded.ipv4.value) < Len(decoded.ethernet.value)
    /\ Len(decoded.ethernet.value) < Len(raw_frames)

\* C12: every result of filter_only_host(.., host), of the first and of the
\* repeated application, is the in-order selection of exactly the packets of
\* ip_packets whose source or destination is host; a repeated application
\* returns what the application before it returned.
C12_FilterExactAndIdempotent ==
    /\ \A n \in DOMAIN filtered :
          IsSelectionOf(filtered[n], ip_packets,
                        LAMBDA p : p.source = host \/ p.destination = host, Same)
    /\ \A n \in DOMAIN filtered : n > 1 => filtered[n] = filtered[n - 1]

\* C12 witness: the filter was applied twice to a collection of which it
\* drops a packet, keeps one for its source only and one for its destination
\* only.
C12_Witness ==
    /\ Len(filtered) >= 2
    /\ Len(filtered[1]) < Len(ip_packets)
    /\ \E a, b \in DOMAIN filtered[2] :
          /\ filtered[2][a].source = host /\ filtered[2][a].destination # host
          /\ filtered[2][b].source # host /\ filtered[2][b].destination = host

(***************************************************************************)
(* Claims about the live-process task and the failed receive (checked      *)
(* under Spec).                                                            *)
(***************************************************************************)
\* Every task of the session was spawned by start_live_process.
LiveOnly == \A t \in DOMAIN tasks : tasks[t].kind = "live"

\* The task t takes a step.
Steps(t) == tasks'[t] # tasks[t]

\* C21: a live task holds a frame exactly while it is about to call the
\* callback; its step from there hands that frame to the callback and drops
\* it, no other step of it and no step of anything else calls the callback,
\* and no step of it touches the shared buffer or its mutex; in a session
\* whose tasks are all live the buffer, every Completed snapshot and every
\* results_raw value are empty.
C21_LiveFramesGoToCallbackOnly ==
    /\ [](\A t \in DOMAIN tasks :
            tasks[t].kind = "live" =>
                (tasks[t].pkt # NoFrame <=> tasks[t].pc = "callback"))
    /\ [](LiveOnly =>
            /\ packets = <<>>
            /\ \A h \in DOMAIN completed :
                  completed[h].results = <<>> /\ returned[h].value = <<>>)
    /\ [][/\ \A t \in DOMAIN tasks :
                (tasks[t].kind = "live" /\ Steps(t)) =>
                    /\ packets' = packets
                    /\ lock' = lock
                    /\ IF tasks[t].pc = "callback"
                         THEN /\ delivered' = Append(delivered, tasks[t].pkt)
                              /\ tasks'[t].pkt = NoFrame
                         ELSE delivered' = delivered
          /\ delivered' # delivered =>
                \E t \in DOMAIN tasks :
                    tasks[t].kind = "live" /\ tasks[t].pc = "callback" /\ Steps(t)]_vars

\* C21 witness: a session of live tasks only has delivered two frames, was
\* stopped, and results_raw was called on its Completed handle.
C21_Witness ==
    /\ tasks # <<>>
    /\ LiveOnly
    /\ Len(delivered) >= 2
    /\ \E h \in DOMAIN completed : returned[h].called

\* C22: a step in which a task leaves rx.next() without a frame is the end of
\* the task: it is panicked from then on, the step changes neither the
\* buffer nor the callback's deliveries nor the mutex, which the task does
\* not hold; a panicked task holds no frame and never steps again; and the
\* buffer only ever grows at its end.
C22_FailedReceiveEndsTask ==
    /\ [](\A t \in DOMAIN tasks :
            tasks[t].pc = "panicked" => tasks[t].pkt = NoFrame /\ lock # ByTask(t))
    /\ [][/\ \A t \in DOMAIN tasks :
                /\ (tasks[t].pc = "recv" /\ Steps(t) /\ tasks'[t].pkt = NoFrame) =>
                        /\ tasks'[t].pc = "panicked"
                        /\ packets' = packets
                        /\ delivered' = delivered
                        /\ lock' = lock
                        /\ lock # ByTask(t)
                /\ tasks[t].pc = "panicked" => ~Steps(t)
          /\ \/ packets' = packets
             \/ \E f \in Frames : packets' = Append(packets, f)]_vars

\* C22 witness: a capture task has pushed a frame and then failed a receive;
\* the frame is still in the buffer.
C22_Witness ==
    /\ \E t \in DOMAIN tasks : tasks[t].kind = "capture" /\ tasks[t].pc = "panicked"
    /\ Len(tasks) = 1
    /\ Len(packets) >= 1

(***************************************************************************)
(* Claim about is_answered_by at the top of the sequence-number space      *)
(* (checked under AnsSpec).                                                *)
(***************************************************************************)
\* The candidate is on the reverse port pair and acknowledges the
\* challenge's sequence number plus payload length reduced to the space.
AcknowledgesModulo(a, b) ==
    /\ b.src = a.dst
    /\ b.dst = a.src
    /\ b.ack = (a.seq + a.len) % SeqSpace

\* C23: is_answered_by returns false for every candidate when the
\* challenge's sequence number plus payload length reaches the size of the
\* sequence-number space, the candidate that acknowledges the reduced sum
\* included; below that size it returns true exactly for the candidates on
\* the reverse port pair that acknowledge the sum.
C23_NoMatchAcrossWrap ==
    answered.called =>
        IF challenge.seq + challenge.len >= SeqSpace
        THEN answered.value = FALSE
        ELSE answered.value = AcknowledgesModulo(challenge, candidate)

\* C23 witness: the method returned false for a challenge whose sum passes
\* the top of the space and the candidate that acknowledges the reduced sum.
C23_Witness ==
    /\ answered.called
    /\ challenge.seq + challenge.len >= SeqSpace
    /\ AcknowledgesModulo(challenge, candidate)
    /\ answered.value = FALSE

(***************************************************************************)
(* Claims about the two copies of the correlator and about its             *)
(* termination (checked under CorrSpec).                                   *)
(***************************************************************************)
\* What a caller gets from a call: the panic, or the two returned
\* collections as segment values.
OutcomeOf(in, res) ==
    IF res.panicked
    THEN [panicked |-> TRUE, matched |-> <<>>, unmatched |-> <<>>]
    ELSE [panicked |-> FALSE,
          matched |-> [k \in DOMAIN res.matched |->
                          <<in[res.matched[k][1]], in[res.matched[k][2]]>>],
          unmatched |-> [k \in DOMAIN res.unmatched |-> in[res.unmatched[k]]]]

\* The outcome of the call that has just ended.
RunOutcome ==
    OutcomeOf(input, [matched |-> matched, unmatched |-> unmatched,
                      panicked |-> cpc = "panic"])

OtherCopy(v) == IF v = "lib" THEN "tcp" ELSE "lib"

\* The step-by-step call ends as the function Correlate says it does.
CorrelateIsTheCall ==
    cpc \in {"done", "panic"} =>
        RunOutcome = OutcomeOf(input, FindChallengeResponsePairs(version, input))

\* C24: when a call of one copy has ended, the other copy, called on the same
\* input, ends the same way: both panic, or both return the same matched
\* pairs and the same unmatched sequence.
C24_CopiesAgree ==
    cpc \in {"done", "panic"} =>
        RunOutcome = OutcomeOf(input, FindChallengeResponsePairs(OtherCopy(version), input))

\* C25: no call of find_challenge_response_pairs ends in a panic (no pool
\* access or removal is out of bounds).
C25_ReturnsNormally == cpc # "panic"

\* Every outer iteration that does not panic removes two pool elements or
\* advances i by one, so a call that does not panic returns.
C25_EachIterationProgresses ==
    [][cpc = "loop" =>
        \/ cpc' = "panic"
        \/ cpc' = "done"
        \/ Len(unmatched') = Len(unmatched) - 2 /\ i' = i
        \/ unmatched' = unmatched /\ i' = i + 1]_vars

====
